---- MODULE Spec2Model ----
(***************************************************************************)
(* Model of server.js: the /upload and /ask handlers of the PDF QA chatbot *)
(* as a state machine.  A step of the model is what the event loop runs    *)
(* between two awaits of one request: the continuation of an await, up to  *)
(* the next collaborator call.  Collaborators (PDF loader, splitter,       *)
(* embeddings, Pinecone, Gemini) resolve or reject nondeterministically.   *)
(*                                                                         *)
(* Strings are sequences of one-character strings, so that toString, trim, *)
(* toLowerCase, includes and join are computed and not assumed.            *)
(***************************************************************************)
EXTENDS Integers, Sequences, FiniteSets

VARIABLES
    clock,          \* Date.now(), in milliseconds
    sessionStore,   \* the Map sessionId -> {namespace, history}
    histories,      \* the history Array objects, by the upload that allocated them
    index,          \* the vectors held by the Pinecone index
    uploads,        \* the /upload requests
    asks            \* the /ask requests

vars == <<clock, sessionStore, histories, index, uploads, asks>>

\* ------------------------------------------------------------------ bounds

NumUploads == 2
NumAsks == 2
MaxRequests == 3
MaxClock == 2
MaxResults == 2

Uploads == 1..NumUploads
Asks == 1..NumAsks

\* ----------------------------------------------------------------- strings

Digit(d) ==
    CASE d = 0 -> "0" [] d = 1 -> "1" [] d = 2 -> "2" [] d = 3 -> "3"
      [] d = 4 -> "4" [] d = 5 -> "5" [] d = 6 -> "6" [] d = 7 -> "7"
      [] d = 8 -> "8" [] d = 9 -> "9"

\* Number.prototype.toString, base 10, of a non-negative integer
RECURSIVE toString(_)
toString(n) ==
    IF n < 10 THEN <<Digit(n)>> ELSE toString(n \div 10) \o <<Digit(n % 10)>>

Lower(c) ==
    CASE c = "A" -> "a" [] c = "B" -> "b" [] c = "C" -> "c" [] c = "D" -> "d"
      [] c = "E" -> "e" [] c = "F" -> "f" [] c = "G" -> "g" [] c = "H" -> "h"
      [] c = "I" -> "i" [] c = "J" -> "j" [] c = "K" -> "k" [] c = "L" -> "l"
      [] c = "M" -> "m" [] c = "N" -> "n" [] c = "O" -> "o" [] c = "P" -> "p"
      [] c = "Q" -> "q" [] c = "R" -> "r" [] c = "S" -> "s" [] c = "T" -> "t"
      [] c = "U" -> "u" [] c = "V" -> "v" [] c = "W" -> "w" [] c = "X" -> "x"
      [] c = "Y" -> "y" [] c = "Z" -> "z" [] OTHER -> c

ToLowerCase(s) == [i \in 1..Len(s) |-> Lower(s[i])]

Includes(s, sub) ==
    \E i \in 0..(Len(s) - Len(sub)) :
        \A j \in 1..Len(sub) : s[i + j] = sub[j]

IsSpace(c) == c \in {" ", "\t", "\n", "\r"}

RECURSIVE TrimStart(_)
TrimStart(s) ==
    IF s # <<>> /\ IsSpace(Head(s)) THEN TrimStart(Tail(s)) ELSE s

RECURSIVE TrimEnd(_)
TrimEnd(s) ==
    IF s # <<>> /\ IsSpace(s[Len(s)]) THEN TrimEnd(SubSeq(s, 1, Len(s) - 1)) ELSE s

Trim(s) == TrimEnd(TrimStart(s))

RECURSIVE Join(_, _)
Join(texts, sep) ==
    IF texts = <<>> THEN <<>>
    ELSE IF Len(texts) = 1 THEN texts[1]
    ELSE texts[1] \o sep \o Join(Tail(texts), sep)

\* -------------------------------------------------------- program literals

\* "I couldn't find the answer in the document."
REFUSAL ==
    <<"I", " ", "c", "o", "u", "l", "d", "n", "'", "t", " ", "f", "i", "n", "d",
      " ", "t", "h", "e", " ", "a", "n", "s", "w", "e", "r", " ", "i", "n", " ",
      "t", "h", "e", " ", "d", "o", "c", "u", "m", "e", "n", "t", ".">>

\* "couldn't find"
COULDNT_FIND == <<"c", "o", "u", "l", "d", "n", "'", "t", " ", "f", "i", "n", "d">>

\* "don't know"
DONT_KNOW == <<"d", "o", "n", "'", "t", " ", "k", "n", "o", "w">>

\* "\n\n---\n\n"
SEPARATOR == <<"\n", "\n", "-", "-", "-", "\n", "\n">>

\* "pdf-"
NAMESPACE_PREFIX == <<"p", "d", "f", "-">>

\* similarity scores are counted in tenths: 5 is 0.5
similarityThreshold == 5

\* the k of similaritySearchVectorWithScore
TopK == 10

\* ------------------------------------------------------------------ inputs

\* req.body of /ask: a JSON object in which either field may be absent.
Questions == {<<"q">>, <<"w">>}
SessionIds == {toString(t) : t \in 1..MaxClock}
AskBodies ==
    {[question |-> q, sessionId |-> s] : q \in Questions, s \in SessionIds}
    \cup {[sessionId |-> toString(1)],
          [question |-> <<>>, sessionId |-> toString(1)],
          [question |-> <<"q">>],
          [question |-> <<"q">>, sessionId |-> <<>>]}

\* What splitDocuments may return: the page contents of the chunks.
ChunkSets == { << <<"a">>, <<"b">> >>, << <<" ">>, <<"b">> >> }

\* What response.text() of the rewriting call may return.
RewriteTexts == { <<"s">> }

\* What response.text() of the answering call may return.
AnswerTexts ==
    { <<"o", "k">>,
      <<"I", " ", "D", "o", "n", "'", "t", " ", "K", "n", "o", "w">>,
      <<"C", "O", "U", "L", "D", "N", "'", "T", " ", "F", "I", "N", "D">> }

\* The similarity scores a match may carry, in tenths.
Scores == {4, 5, 6}

\* error.message of a rejected collaborator call
ErrLoad == "pdf load failed"
ErrSplit == "split failed"
ErrIndex == "upsert failed"
ErrStats == "describeIndexStats failed"
ErrEmbed == "embedQuery failed"
ErrStore == "fromExistingIndex failed"
ErrSearch == "query failed"

\* ------------------------------------------------------------------- state

NoResponse == [none |-> TRUE]

IdleUpload ==
    [pc |-> "idle", file |-> FALSE, sessionId |-> <<>>, namespace |-> <<>>,
     chunkedDocs |-> <<>>, status |-> 0, response |-> NoResponse]

IdleAsk ==
    [pc |-> "idle", body |-> <<>>, namespace |-> <<>>, history |-> 0,
     contents |-> <<>>, transformedQuery |-> <<>>, searchNamespace |-> <<>>,
     results |-> <<>>,
     context |-> <<>>, answer |-> <<>>, calls |-> <<>>, failed |-> {},
     status |-> 0, response |-> NoResponse]

Init ==
    /\ clock = 1
    /\ sessionStore = <<>>
    /\ histories = [u \in Uploads |-> <<>>]
    /\ index = {}
    /\ uploads = [u \in Uploads |-> IdleUpload]
    /\ asks = [a \in Asks |-> IdleAsk]

\* Map.prototype.set
MapSet(m, k, v) == [x \in DOMAIN m \cup {k} |-> IF x = k THEN v ELSE m[x]]

\* Map.prototype.has, as the truthiness of Map.prototype.get
MapHas(m, k) == k \in DOMAIN m

\* The requests that have arrived so far.
Arrived ==
    Cardinality({u \in Uploads : uploads[u].pc # "idle"})
    + Cardinality({a \in Asks : asks[a].pc # "idle"})

Turn(role, text) == [role |-> role, parts |-> << [text |-> text] >>]

\* ----------------------------------------------------------------- /upload

\* Date.now() advances.
Tick ==
    /\ clock < MaxClock
    /\ clock' = clock + 1
    /\ UNCHANGED <<sessionStore, histories, index, uploads, asks>>

UploadNamespace(sessionId) == NAMESPACE_PREFIX \o sessionId

\* catch (error): res.status(500)
UploadFail(u, message) ==
    [uploads[u] EXCEPT !.pc = "done", !.status = 500,
        !.response = [error |-> "Failed to process PDF: " \o message]]

\* The request arrives: the file check, Date.now(), and the call of load().
UploadStart(u, file) ==
    /\ uploads[u].pc = "idle"
    /\ u > 1 => uploads[u - 1].pc # "idle"
    /\ Arrived < MaxRequests
    /\ uploads' = [uploads EXCEPT ![u] =
         IF ~file
         THEN [@ EXCEPT !.pc = "done", !.status = 400,
                        !.response = [error |-> "No file uploaded"]]
         ELSE [@ EXCEPT !.pc = "load", !.file = TRUE,
                        !.sessionId = toString(clock),
                        !.namespace = UploadNamespace(toString(clock))]]
    /\ UNCHANGED <<clock, sessionStore, histories, index, asks>>

\* pdfLoader.load() settles.
UploadLoaded(u) ==
    /\ uploads[u].pc = "load"
    /\ \/ uploads' = [uploads EXCEPT ![u].pc = "split"]
       \/ uploads' = [uploads EXCEPT ![u] = UploadFail(u, ErrLoad)]
    /\ UNCHANGED <<clock, sessionStore, histories, index, asks>>

\* textSplitter.splitDocuments() settles; PineconeStore.fromDocuments is called.
UploadSplit(u) ==
    /\ uploads[u].pc = "split"
    /\ \/ \E docs \in ChunkSets :
            uploads' = [uploads EXCEPT ![u].pc = "index", ![u].chunkedDocs = docs]
       \/ uploads' = [uploads EXCEPT ![u] = UploadFail(u, ErrSplit)]
    /\ UNCHANGED <<clock, sessionStore, histories, index, asks>>

\* a vector upserted with the namespace option left out (the default namespace)
VectorDefaultNamespace(u, i) ==
    [namespace |-> <<>>, pageContent |-> uploads[u].chunkedDocs[i],
     upload |-> u, chunk |-> i]

Vector(u, i) ==
    [namespace |-> uploads[u].namespace, pageContent |-> uploads[u].chunkedDocs[i],
     upload |-> u, chunk |-> i]

Upserted(u) == {v \in index : v.upload = u}

\* fromDocuments embeds and upserts one more chunk, under the request's namespace.
UploadUpsert(u) ==
    /\ uploads[u].pc = "index"
    /\ \E i \in 1..Len(uploads[u].chunkedDocs) :
         /\ Vector(u, i) \notin index
         /\ index' = index \cup {Vector(u, i)}
    /\ UNCHANGED <<clock, sessionStore, histories, uploads, asks>>

\* fromDocuments rejects, whatever it had upserted.
UploadIndexFailed(u) ==
    /\ uploads[u].pc = "index"
    /\ uploads' = [uploads EXCEPT ![u] = UploadFail(u, ErrIndex)]
    /\ UNCHANGED <<clock, sessionStore, histories, index, asks>>

\* sessionStore.set(sessionId, {namespace, history: []})
Register(u) ==
    MapSet(sessionStore, uploads[u].sessionId,
           [namespace |-> uploads[u].namespace, history |-> u])

\* fromDocuments resolves: the session is stored, describeIndexStats is called.
UploadIndexed(u) ==
    /\ uploads[u].pc = "index"
    /\ Cardinality(Upserted(u)) = Len(uploads[u].chunkedDocs)
    /\ sessionStore' = Register(u)
    /\ histories' = [histories EXCEPT ![u] = <<>>]
    /\ uploads' = [uploads EXCEPT ![u].pc = "stats"]
    /\ UNCHANGED <<clock, index, asks>>

\* describeIndexStats settles.
UploadStats(u) ==
    /\ uploads[u].pc = "stats"
    /\ \/ uploads' = [uploads EXCEPT ![u] =
            [@ EXCEPT !.pc = "done", !.status = 200,
                      !.response = [message |-> "PDF processed successfully",
                                    sessionId |-> uploads[u].sessionId]]]
       \/ uploads' = [uploads EXCEPT ![u] = UploadFail(u, ErrStats)]
    /\ UNCHANGED <<clock, sessionStore, histories, index, asks>>

\* -------------------------------------------------------------------- /ask

\* !v of a field of req.body: absent (undefined) or the empty string
Falsy(body, f) == f \notin DOMAIN body \/ body[f] = <<>>

\* catch (error): res.status(500)
AskFail(a, call, message) ==
    [asks[a] EXCEPT !.pc = "done", !.status = 500, !.failed = @ \cup {call},
        !.response = [error |-> "Failed to process question: " \o message]]

\* transformQuery's test of history.length, with the rewriter never skipped
SkipRewriteNever(history) == FALSE

\* transformQuery's test of history.length
SkipRewrite(history) == Len(history) = 0

\* the validation with only an absent field counted as missing (=== undefined)
MissingFieldsUndefinedOnly(body) ==
    "question" \notin DOMAIN body \/ "sessionId" \notin DOMAIN body

\* if (!question || !sessionId)
MissingFields(body) == Falsy(body, "question") \/ Falsy(body, "sessionId")

\* the rejection sent with status 404 in place of 400
AskReject404(a, body, message) ==
    [asks[a] EXCEPT !.pc = "done", !.body = body, !.status = 404,
        !.response = [error |-> message]]

\* the rejection sent without the return, the handler going on to embedQuery
AskRejectNoReturn(a, body, message) ==
    [asks[a] EXCEPT !.pc = "embed", !.body = body, !.status = 400,
        !.response = [error |-> message], !.calls = <<"embedQuery">>]

\* return res.status(400).json({ error })
AskReject(a, body, message) ==
    [asks[a] EXCEPT !.pc = "done", !.body = body, !.status = 400,
        !.response = [error |-> message]]

\* The request arrives: validation, the session lookup, and transformQuery up to its
\* first await, or to the embedQuery call when it returns at once.
AskStart(a, body) ==
    /\ asks[a].pc = "idle"
    /\ a > 1 => asks[a - 1].pc # "idle"
    /\ Arrived < MaxRequests
    /\ asks' = [asks EXCEPT ![a] =
         IF MissingFields(body)
         THEN AskReject(a, body, "Missing question or session ID")
         ELSE IF ~MapHas(sessionStore, body.sessionId)
         THEN AskReject(a, body, "Invalid session ID")
         ELSE LET session == sessionStore[body.sessionId]
                  history == histories[session.history]
              IN  IF SkipRewrite(history)
                  THEN [@ EXCEPT !.pc = "embed", !.body = body,
                                 !.namespace = session.namespace,
                                 !.history = session.history,
                                 !.transformedQuery = body.question,
                                 !.calls = <<"embedQuery">>]
                  ELSE [@ EXCEPT !.pc = "rewrite", !.body = body,
                                 !.namespace = session.namespace,
                                 !.history = session.history,
                                 !.contents =
                                     Append(history, Turn("user", body.question)),
                                 !.calls = <<"rewrite">>]]
    /\ UNCHANGED <<clock, sessionStore, histories, index, uploads>>

\* What transformQuery returns once the rewriting call has settled.
Rewritten(question, ok, text) == IF ok THEN text ELSE question

\* model.generateContent({contents: tempHistory}) settles; embedQuery is called.
AskRewritten(a) ==
    /\ asks[a].pc = "rewrite"
    /\ \/ \E text \in RewriteTexts :
            asks' = [asks EXCEPT ![a].pc = "embed",
                       ![a].transformedQuery = Rewritten(asks[a].body.question, TRUE, text),
                       ![a].calls = Append(@, "embedQuery")]
       \/ asks' = [asks EXCEPT ![a].pc = "embed",
                     ![a].transformedQuery = Rewritten(asks[a].body.question, FALSE, <<>>),
                     ![a].failed = @ \cup {"rewrite"},
                     ![a].calls = Append(@, "embedQuery")]
    /\ UNCHANGED <<clock, sessionStore, histories, index, uploads>>

\* embeddings.embedQuery settles; PineconeStore.fromExistingIndex is called.
AskEmbedded(a) ==
    /\ asks[a].pc = "embed"
    /\ \/ asks' = [asks EXCEPT ![a].pc = "store",
                     ![a].calls = Append(@, "fromExistingIndex")]
       \/ asks' = [asks EXCEPT ![a] = AskFail(a, "embedQuery", ErrEmbed)]
    /\ UNCHANGED <<clock, sessionStore, histories, index, uploads>>

\* The namespace the vector store of an /ask is restricted to.
SearchNamespace(a) == asks[a].namespace

\* fromExistingIndex settles; similaritySearchVectorWithScore is called.
AskStoreReady(a) ==
    /\ asks[a].pc = "store"
    /\ \/ asks' = [asks EXCEPT ![a].pc = "search",
                     ![a].searchNamespace = SearchNamespace(a),
                     ![a].calls = Append(@, "similaritySearch")]
       \/ asks' = [asks EXCEPT ![a] = AskFail(a, "fromExistingIndex", ErrStore)]
    /\ UNCHANGED <<clock, sessionStore, histories, index, uploads>>

\* What the index may answer to a top-k query in a namespace: vectors of that
\* namespace, each once, by descending score.
Matches(namespace) == {v \in index : v.namespace = namespace}

K == IF TopK < MaxResults THEN TopK ELSE MaxResults

SearchResults(namespace) ==
    UNION {
        {r \in [1..n -> [doc : Matches(namespace), score : Scores]] :
            /\ \A i, j \in 1..n : i < j => r[i].doc # r[j].doc
            /\ \A i, j \in 1..n : i < j => r[i].score >= r[j].score}
        : n \in 0..K}

\* the filter with a strict comparison
RelevantStrict(r) == r.score > similarityThreshold

\* the filter with the comparison turned round
RelevantInverted(r) == r.score <= similarityThreshold

\* the test of results.filter(([_, score]) => score >= similarityThreshold)
Relevant(r) == r.score >= similarityThreshold

\* .map(([doc]) => doc.pageContent)
PageContents(results) == [i \in 1..Len(results) |-> results[i].doc.pageContent]

\* the filter without the trim
NonBlankUntrimmed(text) == Len(text) > 0

\* the test of .filter(text => text.trim().length > 0)
NonBlank(text) == Len(Trim(text)) > 0

\* lines 168-179: the context assembled from the search results
Context(results) ==
    LET relevantResults == SelectSeq(results, Relevant)
    IN  IF Len(relevantResults) > 0
        THEN Join(SelectSeq(PageContents(relevantResults), NonBlank), SEPARATOR)
        ELSE <<>>

\* the user turn pushed with the rewritten query in place of the question
AnsweredRewritten(a, answer) ==
    /\ histories' = [histories EXCEPT ![asks[a].history] =
          @ \o <<Turn("user", asks[a].transformedQuery), Turn("model", answer)>>]
    /\ UNCHANGED <<clock, sessionStore, index, uploads>>

\* the history assigned the two turns in place of the pushes
AnsweredOverwrite(a, answer) ==
    /\ histories' = [histories EXCEPT ![asks[a].history] =
          <<Turn("user", asks[a].body.question), Turn("model", answer)>>]
    /\ UNCHANGED <<clock, sessionStore, index, uploads>>

\* lines 189-194: the two pushes and res.json({answer})
Answered(a, answer) ==
    /\ histories' = [histories EXCEPT ![asks[a].history] =
          @ \o <<Turn("user", asks[a].body.question), Turn("model", answer)>>]
    /\ UNCHANGED <<clock, sessionStore, index, uploads>>

\* similaritySearchVectorWithScore settles: filter, context, and either the refusal
\* and the response, or the call of generateAnswer.
AskSearched(a) ==
    /\ asks[a].pc = "search"
    /\ \/ \E results \in SearchResults(asks[a].searchNamespace) :
            LET context == Context(results)
            IN  IF context # <<>>
                THEN /\ asks' = [asks EXCEPT ![a].pc = "generate",
                                   ![a].results = results, ![a].context = context,
                                   ![a].calls = Append(@, "generate")]
                     /\ UNCHANGED <<clock, sessionStore, histories, index, uploads>>
                ELSE /\ asks' = [asks EXCEPT ![a].pc = "done",
                                   ![a].results = results, ![a].context = context,
                                   ![a].answer = REFUSAL, ![a].status = 200,
                                   ![a].response = [answer |-> REFUSAL]]
                     /\ Answered(a, REFUSAL)
       \/ /\ asks' = [asks EXCEPT ![a] = AskFail(a, "similaritySearch", ErrSearch)]
          /\ UNCHANGED <<clock, sessionStore, histories, index, uploads>>

\* the check with the phrases matched case-sensitively
VerifiedCaseSensitive(answer) ==
    IF Includes(answer, COULDNT_FIND) \/ Includes(answer, DONT_KNOW)
    THEN REFUSAL
    ELSE answer

\* generateAnswer's check of the model's text
Verified(answer) ==
    IF Includes(ToLowerCase(answer), COULDNT_FIND)
       \/ Includes(ToLowerCase(answer), DONT_KNOW)
    THEN REFUSAL
    ELSE answer

\* model.generateContent(prompt) settles: generateAnswer returns, history is
\* updated and the answer sent.
AskGenerated(a) ==
    /\ asks[a].pc = "generate"
    /\ \/ \E text \in AnswerTexts :
            /\ asks' = [asks EXCEPT ![a].pc = "done", ![a].answer = Verified(text),
                          ![a].status = 200,
                          ![a].response = [answer |-> Verified(text)]]
            /\ Answered(a, Verified(text))
       \/ /\ asks' = [asks EXCEPT ![a].pc = "done", ![a].answer = REFUSAL,
                        ![a].failed = @ \cup {"generate"}, ![a].status = 200,
                        ![a].response = [answer |-> REFUSAL]]
          /\ Answered(a, REFUSAL)

\* ------------------------------------------------------------ specification

Next ==
    \/ Tick
    \/ \E u \in Uploads, file \in BOOLEAN : UploadStart(u, file)
    \/ \E u \in Uploads : UploadLoaded(u)
    \/ \E u \in Uploads : UploadSplit(u)
    \/ \E u \in Uploads : UploadUpsert(u)
    \/ \E u \in Uploads : UploadIndexFailed(u)
    \/ \E u \in Uploads : UploadIndexed(u)
    \/ \E u \in Uploads : UploadStats(u)
    \/ \E a \in Asks, body \in AskBodies : AskStart(a, body)
    \/ \E a \in Asks : AskRewritten(a)
    \/ \E a \in Asks : AskEmbedded(a)
    \/ \E a \in Asks : AskStoreReady(a)
    \/ \E a \in Asks : AskSearched(a)
    \/ \E a \in Asks : AskGenerated(a)

Spec == Init /\ [][Next]_vars

\* ------------------------------------------------------------------ claims

Called(a, fn) == \E i \in DOMAIN asks[a].calls : asks[a].calls[i] = fn

\* The request passed validation and the session lookup.
Admitted(a) == asks[a].history # 0

\* The search of the request has returned its results.
Searched(a) ==
    /\ Called(a, "similaritySearch")
    /\ "similaritySearch" \notin asks[a].failed
    /\ asks[a].pc \in {"generate", "done"}

AllBelow(results) ==
    \A i \in DOMAIN results : results[i].score < similarityThreshold

\* The arrival step of request a.
Arrives(a) == asks[a].pc = "idle" /\ asks'[a].pc # "idle"

\* C1 (as claimed): an /ask that passed validation and the session lookup never
\* responds 500, whichever collaborator call failed; it responds 200 with an answer.
C1_AdmittedAskNever500 ==
    \A a \in Asks :
        (Admitted(a) /\ asks[a].pc = "done") =>
            /\ asks[a].status = 200
            /\ asks[a].response = [answer |-> asks[a].answer]

\* The answered /ask requests of a session, and the k-th of them by submission.
AnsweredOn(sid) ==
    {a \in Asks : asks[a].status = 200 /\ asks[a].body.sessionId = sid}

Nth(S, k) == CHOOSE a \in S : Cardinality({b \in S : b < a}) = k - 1

\* C2 (as claimed): after N answered /ask requests on a session its history holds exactly
\* 2N turns, alternating user and model, and the k-th user turn is the question of
\* the k-th submitted request.
C2_HistoryInSubmissionOrder ==
    \A sid \in DOMAIN sessionStore :
        LET S == AnsweredOn(sid)
            h == histories[sessionStore[sid].history]
        IN  /\ Len(h) = 2 * Cardinality(S)
            /\ \A k \in 1..Cardinality(S) :
                 /\ h[2 * k - 1] = Turn("user", asks[Nth(S, k)].body.question)
                 /\ h[2 * k].role = "model"

\* C3 (as claimed): two /upload requests that both respond 200 return different
\* sessionIds and were given different namespaces.
C3_DistinctSessionIds ==
    \A u1, u2 \in Uploads :
        (u1 # u2 /\ uploads[u1].status = 200 /\ uploads[u2].status = 200) =>
            /\ uploads[u1].response.sessionId # uploads[u2].response.sessionId
            /\ uploads[u1].namespace # uploads[u2].namespace

\* C4 (as claimed): an /upload that responded 400 or 500 has left no entry of its own in
\* the session registry.
C4_FailedUploadLeavesNoSession ==
    \A u \in Uploads :
        uploads[u].status \in {400, 500} =>
            \A sid \in DOMAIN sessionStore : sessionStore[sid].history # u

\* C5: every vector in the index lies under the namespace generated for the upload
\* that upserted it; the search of an /ask is restricted to the namespace recorded
\* for its session; so no result of an /ask comes from an upload whose namespace
\* differs from the session's.
C5_NamespaceIsolation ==
    /\ \A v \in index : v.namespace = uploads[v.upload].namespace
    /\ \A a \in Asks :
         Called(a, "similaritySearch") =>
            /\ asks[a].searchNamespace = sessionStore[asks[a].body.sessionId].namespace
            /\ \A i \in DOMAIN asks[a].results :
                 /\ asks[a].results[i].doc.namespace = asks[a].searchNamespace
                 /\ \A u \in Uploads :
                      uploads[u].namespace # asks[a].searchNamespace =>
                         asks[a].results[i].doc.upload # u

\* C5's case: an /ask got results while another upload, under another namespace, has
\* vectors in the index.
C5_Witness ==
    \E a \in Asks, v \in index :
        /\ asks[a].results # <<>>
        /\ v.namespace # asks[a].searchNamespace

\* C6: an /ask that arrives with a non-empty question and a non-empty sessionId that
\* is no key of the registry responds 400 "Invalid session ID", calls no collaborator
\* and changes neither the registry, nor a history, nor the index.
C6_UnknownSessionRejected ==
    [][\A a \in Asks :
        (/\ Arrives(a)
         /\ ~Falsy(asks'[a].body, "question")
         /\ ~Falsy(asks'[a].body, "sessionId")
         /\ asks'[a].body.sessionId \notin DOMAIN sessionStore) =>
            /\ asks'[a].pc = "done"
            /\ asks'[a].status = 400
            /\ asks'[a].response = [error |-> "Invalid session ID"]
            /\ asks'[a].calls = <<>>
            /\ sessionStore' = sessionStore
            /\ histories' = histories
            /\ index' = index]_vars

\* C6's case: a request with both fields was turned away while a session exists.
C6_Witness ==
    \E a \in Asks :
        /\ asks[a].pc = "done"
        /\ ~MissingFields(asks[a].body)
        /\ ~Admitted(a)
        /\ asks[a].status = 400
        /\ sessionStore # <<>>

\* C7: an /ask whose question or sessionId is absent or empty responds 400 "Missing
\* question or session ID", also when its sessionId is unknown (the check comes before
\* the lookup); it calls no collaborator and changes no session state.
C7_MissingFieldsRejected ==
    [][\A a \in Asks :
        (/\ Arrives(a)
         /\ \/ Falsy(asks'[a].body, "question")
            \/ Falsy(asks'[a].body, "sessionId")) =>
            /\ asks'[a].pc = "done"
            /\ asks'[a].status = 400
            /\ asks'[a].response = [error |-> "Missing question or session ID"]
            /\ asks'[a].calls = <<>>
            /\ sessionStore' = sessionStore
            /\ histories' = histories
            /\ index' = index]_vars

\* C7's case: the question is missing and the sessionId is unknown.
C7_Witness ==
    \E a \in Asks :
        /\ asks[a].pc = "done"
        /\ Falsy(asks[a].body, "question")
        /\ "sessionId" \in DOMAIN asks[a].body
        /\ asks[a].body.sessionId # <<>>
        /\ asks[a].body.sessionId \notin DOMAIN sessionStore
        /\ asks[a].response = [error |-> "Missing question or session ID"]

\* C8: when every result of the search scores below 0.5 (or there is none), the
\* generation collaborator is not called and the answer sent is the refusal string.
C8_RelevanceGate ==
    \A a \in Asks :
        (Searched(a) /\ AllBelow(asks[a].results)) =>
            /\ ~Called(a, "generate")
            /\ asks[a].pc = "done"
            /\ asks[a].status = 200
            /\ asks[a].answer = REFUSAL
            /\ asks[a].response = [answer |-> REFUSAL]

\* C8's case: the search returned results, all of them below the threshold.
C8_Witness ==
    \E a \in Asks :
        /\ Searched(a)
        /\ asks[a].results # <<>>
        /\ AllBelow(asks[a].results)
        /\ asks[a].status = 200

\* C9 (as claimed): when the rewriting call fails, embedQuery gets the original question
\* and the request responds 200.
C9_RewriteFailureStill200 ==
    \A a \in Asks :
        "rewrite" \in asks[a].failed =>
            /\ asks[a].transformedQuery = asks[a].body.question
            /\ asks[a].pc = "done" => asks[a].status = 200

\* The first request admitted on the history array of request a.
FirstOn(a) ==
    /\ Admitted(a)
    /\ \A b \in Asks : (b < a /\ Admitted(b)) => asks[b].history # asks[a].history

\* C10 (as claimed): of two /ask requests with the same question, one after the other on a
\* session that was fresh before the first, neither calls the rewriter and both pass
\* the question unchanged to embedQuery.
C10_RepeatNeverRewrites ==
    \A a1, a2 \in Asks :
        (/\ a2 = a1 + 1
         /\ FirstOn(a1)
         /\ Admitted(a2)
         /\ asks[a2].history = asks[a1].history
         /\ asks[a2].body = asks[a1].body) =>
            /\ ~Called(a1, "rewrite") /\ ~Called(a2, "rewrite")
            /\ asks[a1].transformedQuery = asks[a1].body.question
            /\ Called(a2, "embedQuery") =>
                 asks[a2].transformedQuery = asks[a2].body.question

\* C10 (amended): a request calls the rewriter exactly when the history it reads on
\* arrival is not empty; when it is empty the question goes unchanged to embedQuery at
\* once.  So the first of two identical asks on a fresh session never rewrites, and
\* the second rewrites exactly when the first was answered before it arrived.
C10_RewriteIffHistory ==
    [][\A a \in Asks :
        (Arrives(a) /\ asks'[a].history # 0) =>
            LET read == histories[sessionStore[asks'[a].body.sessionId].history]
            IN  /\ Called(a, "rewrite")' <=> Len(read) > 0
                /\ Len(read) = 0 =>
                     /\ asks'[a].calls = <<"embedQuery">>
                     /\ asks'[a].transformedQuery = asks'[a].body.question
                /\ Len(read) > 0 =>
                     /\ asks'[a].calls = <<"rewrite">>
                     /\ asks'[a].contents =
                          Append(read, Turn("user", asks'[a].body.question))]_vars

\* C10's case: the same question asked again after the first ask was answered; the
\* second request calls the rewriter.
C10_Witness ==
    \E a1, a2 \in Asks :
        /\ a2 = a1 + 1
        /\ FirstOn(a1)
        /\ Admitted(a2)
        /\ asks[a2].history = asks[a1].history
        /\ asks[a2].body = asks[a1].body
        /\ ~Called(a1, "rewrite")
        /\ Called(a2, "rewrite")


\* The history of the session registered under sid.
HistoryOf(store, heap, sid) == heap[store[sid].history]

IsPrefix(s, t) == Len(s) <= Len(t) /\ SubSeq(t, 1, Len(s)) = s

\* C11 (as claimed): a session once registered is never removed, its namespace never
\* changes, and its history in any earlier state is a prefix of its history in any
\* later state, whatever request takes the step, a later /upload included.
C11_SessionHistoryAppendOnly ==
    [][\A sid \in DOMAIN sessionStore :
          /\ sid \in DOMAIN sessionStore'
          /\ sessionStore'[sid].namespace = sessionStore[sid].namespace
          /\ IsPrefix(HistoryOf(sessionStore, histories, sid),
                      HistoryOf(sessionStore', histories', sid))]_vars


\* The step in which request a sends its 200 response.
Responds200(a) == asks[a].status = 0 /\ asks'[a].status = 200

\* C12: the step in which an /ask responds 200 appends exactly two turns to the
\* history the request holds and changes no other history: a user turn with the
\* question of the request body, then a model turn with the answer of the response.
C12_TwoTurnsPerAnswer ==
    [][\A a \in Asks :
          Responds200(a) =>
              histories' = [histories EXCEPT ![asks[a].history] =
                  @ \o <<Turn("user", asks'[a].body.question),
                         Turn("model", asks'[a].response.answer)>>]]_vars

\* An answered request whose query was rewritten and whose generation failed: its
\* history ends with the original question and the refusal.
C12_Witness ==
    \E a \in Asks :
        /\ asks[a].status = 200
        /\ asks[a].transformedQuery # asks[a].body.question
        /\ "generate" \in asks[a].failed
        /\ asks[a].response = [answer |-> REFUSAL]
        /\ LET h == histories[asks[a].history]
           IN  /\ Len(h) = 4
               /\ h[3] = Turn("user", asks[a].body.question)
               /\ h[4] = Turn("model", REFUSAL)


\* A result the claim keeps: a score of at least 0.5 (in tenths) and a text with a
\* character that is not white space.
Kept(r) ==
    /\ ~(r.score < 5)
    /\ \E i \in DOMAIN r.doc.pageContent : ~IsSpace(r.doc.pageContent[i])

\* The context the claim describes, built result by result in retrieval order.
RECURSIVE ExpectedContext(_)
ExpectedContext(results) ==
    IF results = <<>>
    THEN <<>>
    ELSE LET rest == ExpectedContext(Tail(results))
             text == Head(results).doc.pageContent
         IN  IF ~Kept(Head(results)) THEN rest
             ELSE IF rest = <<>> THEN text
             ELSE text \o <<"\n", "\n", "-", "-", "-", "\n", "\n">> \o rest

\* C13: the context handed to the answer generator is the texts of the results with
\* a score of at least 0.5 and a non-blank text, in retrieval order, joined by
\* "\n\n---\n\n"; nothing else contributes and no survivor is missing or moved.
C13_ContextIsFilteredJoin ==
    \A a \in Asks :
        Called(a, "generate") => asks[a].context = ExpectedContext(asks[a].results)

\* The generator was called with two chunks joined by the separator, the second of
\* them scoring exactly 0.5.
C13_Witness ==
    \E a \in Asks :
        /\ Called(a, "generate")
        /\ Len(asks[a].results) = 2
        /\ asks[a].results[2].score = 5
        /\ asks[a].results[1].doc.upload = asks[a].results[2].doc.upload
        /\ asks[a].context =
              asks[a].results[1].doc.pageContent
              \o <<"\n", "\n", "-", "-", "-", "\n", "\n">>
              \o asks[a].results[2].doc.pageContent


\* Some result passes the threshold, and every result that does has a blank text.
SurvivorsAllBlank(results) ==
    /\ \E i \in DOMAIN results : results[i].score >= 5
    /\ \A i \in DOMAIN results :
          results[i].score >= 5 =>
              \A j \in DOMAIN results[i].doc.pageContent :
                  IsSpace(results[i].doc.pageContent[j])

\* C14: a request has called the generator exactly if its assembled context is not
\* empty; when results pass the threshold and all of them are blank, the context is
\* empty, the generator is not called and the answer sent is the canonical refusal.
C14_GenerateIffContext ==
    \A a \in Asks :
        /\ Called(a, "generate") <=> asks[a].context # <<>>
        /\ Searched(a) /\ SurvivorsAllBlank(asks[a].results) =>
              /\ asks[a].context = <<>>
              /\ ~Called(a, "generate")
              /\ asks[a].status = 200
              /\ asks[a].response = [answer |-> REFUSAL]

\* A request answered with the refusal, without generation, after a search whose only
\* result above the threshold is a blank chunk.
C14_Witness ==
    \E a \in Asks :
        /\ Searched(a)
        /\ SurvivorsAllBlank(asks[a].results)
        /\ asks[a].results[1].score = 6
        /\ asks[a].pc = "done"
        /\ asks[a].calls = <<"embedQuery", "fromExistingIndex", "similaritySearch">>
        /\ asks[a].answer = REFUSAL


\* The text is the canonical refusal, or holds neither phrase in any letter case.
RefusalOrClean(text) ==
    \/ text = REFUSAL
    \/ /\ ~Includes(ToLowerCase(text), <<"c", "o", "u", "l", "d", "n", "'", "t", " ",
                                         "f", "i", "n", "d">>)
       /\ ~Includes(ToLowerCase(text), <<"d", "o", "n", "'", "t", " ",
                                         "k", "n", "o", "w">>)

\* C15: every answer returned by /ask and every model turn stored in a history is
\* the canonical refusal or contains neither "couldn't find" nor "don't know" in any
\* letter case; when the generating call failed the answer is the canonical refusal.
C15_AnswersNormalised ==
    /\ \A a \in Asks :
          /\ asks[a].status = 200 =>
                /\ asks[a].response = [answer |-> asks[a].answer]
                /\ RefusalOrClean(asks[a].response.answer)
          /\ "generate" \in asks[a].failed => asks[a].response = [answer |-> REFUSAL]
    /\ \A u \in Uploads : \A k \in DOMAIN histories[u] :
          histories[u][k].role = "model" =>
              RefusalOrClean(histories[u][k].parts[1].text)

\* Two answered requests after successful generation: one answer passed through as
\* generated, the other normalised to the refusal and stored so in the history.
C15_Witness ==
    \E a, b \in Asks :
        /\ asks[a].status = 200 /\ asks[b].status = 200
        /\ Called(a, "generate") /\ "generate" \notin asks[a].failed
        /\ Called(b, "generate") /\ "generate" \notin asks[b].failed
        /\ asks[a].answer = <<"o", "k">>
        /\ asks[b].answer = REFUSAL
        /\ \E k \in DOMAIN histories[asks[b].history] :
              histories[asks[b].history][k] = Turn("model", REFUSAL)


\* The collaborator calls of /ask in the order of the claim.
Pipeline == <<"rewrite", "embedQuery", "fromExistingIndex", "similaritySearch",
              "generate">>

\* The call a request waits for at each position.
PendingCall(pc) ==
    CASE pc = "rewrite" -> "rewrite"
      [] pc = "embed" -> "embedQuery"
      [] pc = "store" -> "fromExistingIndex"
      [] pc = "search" -> "similaritySearch"
      [] pc = "generate" -> "generate"

Waiting(a) == asks[a].pc \in {"rewrite", "embed", "store", "search", "generate"}

StagesInOrder(a) ==
    /\ \/ IsPrefix(asks[a].calls, Pipeline)
       \/ IsPrefix(asks[a].calls, Tail(Pipeline))
    /\ asks[a].pc = "idle" => asks[a].calls = <<>> /\ asks[a].status = 0
    /\ Waiting(a) =>
          /\ asks[a].calls # <<>>
          /\ asks[a].calls[Len(asks[a].calls)] = PendingCall(asks[a].pc)
          /\ asks[a].status = 0
          /\ asks[a].response = NoResponse
    /\ asks[a].pc = "done" <=> asks[a].status \in {200, 400, 500}
    /\ \A i \in DOMAIN asks[a].calls :
          asks[a].calls[i] \in asks[a].failed \ {"rewrite", "generate"} =>
              i = Len(asks[a].calls)
    /\ asks[a].status = 200 =>
          /\ Searched(a)
          /\ Called(a, "generate") <=> asks[a].context # <<>>
          /\ asks[a].response = [answer |-> asks[a].answer]
          /\ \E k \in 1..(Len(histories[asks[a].history]) - 1) :
                /\ histories[asks[a].history][k] = Turn("user", asks[a].body.question)
                /\ histories[asks[a].history][k + 1] = Turn("model", asks[a].answer)

\* C16: within one /ask the calls are made in the order rewrite, embedding, store,
\* search, generation, each one only when the one before has returned and one per
\* step; no response exists while a call is awaited; a 200 response exists only after
\* the search, the filter, the answer and the two history turns; and a request that
\* has responded takes no further step, so it responds exactly once.
C16_StagesSequential ==
    /\ [](\A a \in Asks : StagesInOrder(a))
    /\ [][\A a \in Asks :
             /\ asks[a].status # 0 => asks'[a] = asks[a]
             /\ IsPrefix(asks[a].calls, asks'[a].calls)
             /\ Len(asks'[a].calls) <= Len(asks[a].calls) + 1]_vars

\* A request that ran all five calls in order and was answered.
C16_Witness ==
    \E a \in Asks :
        /\ asks[a].calls = Pipeline
        /\ asks[a].failed = {}
        /\ asks[a].status = 200
        /\ asks[a].answer = <<"o", "k">>


\* Upload u has stored its session (line 96 has run).
Registered(u) ==
    \/ uploads[u].pc = "stats"
    \/ uploads[u].status = 200
    \/ uploads[u].response = UploadFail(u, ErrStats).response

\* The session id was registered by exactly one upload.
RegisteredOnce(sid) ==
    Cardinality({u \in Uploads : Registered(u) /\ uploads[u].sessionId = sid}) = 1

\* C17: for a session whose id no other upload has registered again, however its
\* /ask requests interleave, the history is made of one pair per answered request:
\* its length is twice their number and each answered request owns one pair of its
\* own, a user turn with its question immediately followed by a model turn with its
\* answer.
C17_PairsNeverInterleaved ==
    \A sid \in DOMAIN sessionStore :
        RegisteredOnce(sid) =>
            LET h == HistoryOf(sessionStore, histories, sid)
                A == AnsweredOn(sid)
                n == Cardinality(A)
            IN  /\ Len(h) = 2 * n
                /\ \E f \in [A -> 1..n] :
                      /\ \A a, b \in A : a # b => f[a] # f[b]
                      /\ \A a \in A :
                            /\ h[2 * f[a] - 1] = Turn("user", asks[a].body.question)
                            /\ h[2 * f[a]] = Turn("model", asks[a].answer)

\* Two requests on one session that were both in flight before either was answered
\* (neither saw a turn), answered in the reverse of their arrival order with
\* different questions and answers, on a session registered once.
C17_Witness ==
    /\ asks[1].status = 200 /\ asks[2].status = 200
    /\ asks[1].body.sessionId = asks[2].body.sessionId
    /\ RegisteredOnce(asks[1].body.sessionId)
    /\ ~Called(1, "rewrite") /\ ~Called(2, "rewrite")
    /\ asks[1].body.question # asks[2].body.question
    /\ asks[1].answer # asks[2].answer
    /\ HistoryOf(sessionStore, histories, asks[1].body.sessionId) =
          <<Turn("user", asks[2].body.question), Turn("model", asks[2].answer),
            Turn("user", asks[1].body.question), Turn("model", asks[1].answer)>>


\* C18 (as claimed): the history of a registered session changes only in the step in
\* which an /ask on that session sends its 200 response, and every other step of an
\* /ask (arrival, rejection with 400, the rewriter's return or failure, a 500) leaves
\* every history as it was.
C18_HistoryChangedOnlyByAnswer ==
    [][/\ \A sid \in DOMAIN sessionStore :
             HistoryOf(sessionStore', histories', sid)
                 # HistoryOf(sessionStore, histories, sid)
             => \E a \in Asks : Responds200(a) /\ asks[a].body.sessionId = sid
       /\ \A a \in Asks :
             asks'[a] # asks[a] /\ ~Responds200(a) => histories' = histories]_vars


\* Upload u is still parsing or indexing its file.
Ingesting(u) == uploads[u].pc \in {"load", "split", "index"}

\* The session stored under sid was stored by an upload whose chunks are all upserted.
IndexedBeforeVisible(sid) ==
    LET u == sessionStore[sid].history
    IN  /\ uploads[u].pc \in {"stats", "done"}
        /\ uploads[u].sessionId = sid
        /\ \A i \in DOMAIN uploads[u].chunkedDocs : Vector(u, i) \in index

\* C19 (as claimed): every session in the registry was stored by an upload whose
\* indexing has finished, and an /ask that arrives with the session id of an upload
\* that is still parsing or indexing is answered 'Invalid session ID'.
C19_VisibleOnlyAfterIndexing ==
    /\ [](\A sid \in DOMAIN sessionStore : IndexedBeforeVisible(sid))
    /\ [][\A a \in Asks :
             /\ Arrives(a)
             /\ ~MissingFields(asks'[a].body)
             /\ \E u \in Uploads :
                   Ingesting(u) /\ uploads[u].sessionId = asks'[a].body.sessionId
             => /\ asks'[a].status = 400
                /\ asks'[a].response = [error |-> "Invalid session ID"]]_vars

====
